---- MODULE Spec2Model ----
(***************************************************************************)
(* Scroll-driven 3D suit scene: the keyframe tables and their piecewise    *)
(* linear interpolation (hooks/useSuitScrollAnimation.ts), and the scene   *)
(* components that consume the interpolated channels (ThreeSuitCanvas:     *)
(* SuitModel normalisation and rotation tick, CameraController tick).      *)
(*                                                                         *)
(* Numbers.  A JavaScript number is modelled as an extended rational       *)
(* [n |-> numerator, d |-> denominator] in lowest terms with d >= 0:       *)
(*   d > 0          the finite value n/d                                   *)
(*   d = 0, n = 1   +Infinity        d = 0, n = -1   -Infinity             *)
(*   d = 0, n = 0   NaN                                                    *)
(* Finite arithmetic is exact (binary rounding is not modelled); the       *)
(* special values follow IEEE-754: x/0 is an infinity or NaN, Infinity*0   *)
(* and Infinity-Infinity are NaN, NaN propagates.  Signed zero is not      *)
(* modelled.                                                               *)
(***************************************************************************)
EXTENDS Integers, Sequences, FiniteSets, TLC

---------------------------------------------------------------------------
(* Number arithmetic                                                       *)

Abs(x) == IF x < 0 THEN -x ELSE x

Sign(x) == IF x > 0 THEN 1 ELSE IF x < 0 THEN -1 ELSE 0

RECURSIVE GCD(_, _)
GCD(a, b) == IF b = 0 THEN a ELSE GCD(b, a % b)

\* n/d brought to lowest terms with a non-negative denominator.
Norm(n, d) ==
  IF d = 0 THEN [n |-> Sign(n), d |-> 0]
  ELSE LET g == GCD(Abs(n), Abs(d))
           s == Sign(d)
       IN  [n |-> s * (n \div g), d |-> s * (d \div g)]

R(n, d) == Norm(n, d)

\* The number n/d written in lowest terms (d > 0).
Frac(n, d) == [n |-> n, d |-> d]

Zero == Frac(0, 1)
One == Frac(1, 1)
NaN == [n |-> 0, d |-> 0]
PosInf == [n |-> 1, d |-> 0]
NegInf == [n |-> -1, d |-> 0]

IsNaN(a) == a.d = 0 /\ a.n = 0
IsFinite(a) == a.d > 0

Neg(a) == [n |-> -a.n, d |-> a.d]

\* a + b
Add(a, b) ==
  IF a.d = 0 /\ b.d = 0 THEN (IF a.n = b.n THEN a ELSE NaN)
  ELSE IF a.d = 0 THEN a
  ELSE IF b.d = 0 THEN b
  ELSE LET g == GCD(a.d, b.d)
           l == (a.d \div g) * b.d
       IN  Norm(a.n * (l \div a.d) + b.n * (l \div b.d), l)

\* a - b
Sub(a, b) == Add(a, Neg(b))

\* a * b
Mul(a, b) ==
  IF a.d = 0 \/ b.d = 0 THEN [n |-> Sign(a.n) * Sign(b.n), d |-> 0]
  ELSE LET g1 == GCD(Abs(a.n), b.d)
           g2 == GCD(Abs(b.n), a.d)
       IN  Norm((a.n \div g1) * (b.n \div g2), (a.d \div g2) * (b.d \div g1))

\* a / b
Div(a, b) ==
  IF b.d = 0 THEN (IF b.n = 0 \/ a.d = 0 THEN NaN ELSE Zero)
  ELSE IF b.n = 0 THEN [n |-> Sign(a.n), d |-> 0]
  ELSE Mul(a, Norm(b.d, b.n))

\* a < b (false whenever either side is NaN)
Less(a, b) ==
  /\ ~IsNaN(a)
  /\ ~IsNaN(b)
  /\ IF a.d = 0 \/ b.d = 0 THEN a.n * b.d < b.n * a.d \/ (a.d = 0 /\ b.d = 0 /\ a.n < b.n)
     ELSE LET g == GCD(a.d, b.d)
          IN  a.n * (b.d \div g) < b.n * (a.d \div g)

\* a <= b (false whenever either side is NaN)
Leq(a, b) == ~IsNaN(a) /\ ~IsNaN(b) /\ ~Less(b, a)

\* Math.max of two numbers: NaN if either is NaN.
Max2(a, b) == IF IsNaN(a) \/ IsNaN(b) THEN NaN ELSE IF Less(a, b) THEN b ELSE a

\* Math.max(a, b, c)
MathMax(a, b, c) == Max2(Max2(a, b), c)

\* Math.min of two numbers, used only to state properties.
Min2(a, b) == IF IsNaN(a) \/ IsNaN(b) THEN NaN ELSE IF Less(b, a) THEN b ELSE a

---------------------------------------------------------------------------
(* Keyframe configuration                                                  *)

\* Math.PI * 0.75 = 2.35619449..., held to four decimals (2.3562).
ThreeQuarterPi == Frac(11781, 5000)

\* The decimal literals of the source as fractions in lowest terms.
KEYFRAMES ==
  [ hero |->
      [ scrollStart |-> Frac(0, 1),          \* 0.0
        scrollEnd |-> Frac(1, 5),            \* 0.2
        rotationY |-> Frac(7, 20),           \* 0.35
        zoom |-> Frac(3, 1),                 \* 3.0
        cameraY |-> Frac(8, 5),              \* 1.6
        cameraX |-> Frac(3, 2),              \* 1.5
        opacity |-> Frac(1, 1) ],            \* 1.0
    craft |->
      [ scrollStart |-> Frac(1, 5),          \* 0.2
        scrollEnd |-> Frac(9, 20),           \* 0.45
        rotationY |-> Frac(6, 5),            \* 1.2
        zoom |-> Frac(27, 25),               \* 1.08
        cameraY |-> Frac(33, 20),            \* 1.65
        cameraX |-> Frac(3, 2),              \* 1.5
        opacity |-> Frac(1, 1) ],            \* 1.0
    collection |->
      [ scrollStart |-> Frac(9, 20),         \* 0.45
        scrollEnd |-> Frac(7, 10),           \* 0.7
        rotationY |-> ThreeQuarterPi,        \* Math.PI * 0.75
        zoom |-> Frac(19, 20),               \* 0.95
        cameraY |-> Frac(17, 10),            \* 1.7
        cameraX |-> Frac(13, 10),            \* 1.3
        opacity |-> Frac(1, 1) ],            \* 1.0
    experience |->
      [ scrollStart |-> Frac(7, 10),         \* 0.7
        scrollEnd |-> Frac(17, 20),          \* 0.85
        rotationY |-> Frac(2, 1),            \* 2.0
        zoom |-> Frac(51, 50),               \* 1.02
        cameraY |-> Frac(7, 4),              \* 1.75
        cameraX |-> Frac(6, 5),              \* 1.2
        opacity |-> Frac(1, 1) ],            \* 1.0
    contact |->
      [ scrollStart |-> Frac(17, 20),        \* 0.85
        scrollEnd |-> Frac(1, 1),            \* 1.0
        rotationY |-> Frac(11, 5),           \* 2.2
        zoom |-> Frac(49, 50),               \* 0.98
        cameraY |-> Frac(9, 5),              \* 1.8
        cameraX |-> Frac(1, 1),              \* 1.0
        opacity |-> Frac(0, 1) ] ]           \* 0.0

\* The section list without its first section.
sectionsFromCraft ==
  << KEYFRAMES.craft, KEYFRAMES.collection, KEYFRAMES.experience,
     KEYFRAMES.contact >>

\* The section list with craft and collection in the wrong order.
sectionsSwapped ==
  << KEYFRAMES.hero, KEYFRAMES.collection, KEYFRAMES.craft,
     KEYFRAMES.experience, KEYFRAMES.contact >>

\* The section list from the last section to the first.
sectionsReversed ==
  << KEYFRAMES.contact, KEYFRAMES.experience, KEYFRAMES.collection,
     KEYFRAMES.craft, KEYFRAMES.hero >>

\* The ordered section list of getInterpolationArrays.
sections ==
  << KEYFRAMES.hero, KEYFRAMES.craft, KEYFRAMES.collection,
     KEYFRAMES.experience, KEYFRAMES.contact >>

EmptyArrays ==
  [ scrollBreakpoints |-> << >>, rotationValues |-> << >>, zoomValues |-> << >>,
    cameraYValues |-> << >>, cameraXValues |-> << >>, opacityValues |-> << >> ]

\* The push block with the zoom and the cameraY values going to each
\* other's array.
PushPointCrossed(acc, p, section) ==
  [ scrollBreakpoints |-> Append(acc.scrollBreakpoints, p),
    rotationValues |-> Append(acc.rotationValues, section.rotationY),
    zoomValues |-> Append(acc.zoomValues, section.cameraY),
    cameraYValues |-> Append(acc.cameraYValues, section.zoom),
    cameraXValues |-> Append(acc.cameraXValues, section.cameraX),
    opacityValues |-> Append(acc.opacityValues, section.opacity) ]

\* One push of a section's progress point p and its five channel values.
PushPoint(acc, p, section) ==
  [ scrollBreakpoints |-> Append(acc.scrollBreakpoints, p),
    rotationValues |-> Append(acc.rotationValues, section.rotationY),
    zoomValues |-> Append(acc.zoomValues, section.zoom),
    cameraYValues |-> Append(acc.cameraYValues, section.cameraY),
    cameraXValues |-> Append(acc.cameraXValues, section.cameraX),
    opacityValues |-> Append(acc.opacityValues, section.opacity) ]

\* The loop with every section pushing its end point after its start.
RECURSIVE ForEachSectionBothEnds(_, _, _)
ForEachSectionBothEnds(secs, index, acc) ==
  IF index > Len(secs) THEN acc
  ELSE LET section == secs[index]
           started == PushPoint(acc, section.scrollStart, section)
           ended == PushPoint(started, section.scrollEnd, section)
       IN  ForEachSectionBothEnds(secs, index + 1, ended)

\* The loop pushing every section at its end point instead of its start.
RECURSIVE ForEachSectionAtEnd(_, _, _)
ForEachSectionAtEnd(secs, index, acc) ==
  IF index > Len(secs) THEN acc
  ELSE LET section == secs[index]
           started == PushPoint(acc, section.scrollEnd, section)
           ended == IF index = Len(secs)
                    THEN PushPoint(started, section.scrollEnd, section)
                    ELSE started
       IN  ForEachSectionAtEnd(secs, index + 1, ended)

\* The body of sections.forEach: every section pushes its start point, the
\* last one also pushes its end point.
RECURSIVE ForEachSection(_, _, _)
ForEachSection(secs, index, acc) ==
  IF index > Len(secs) THEN acc
  ELSE LET section == secs[index]
           started == PushPoint(acc, section.scrollStart, section)
           ended == IF index = Len(secs)
                    THEN PushPoint(started, section.scrollEnd, section)
                    ELSE started
       IN  ForEachSection(secs, index + 1, ended)

getInterpolationArraysOf(secs) == ForEachSection(secs, 1, EmptyArrays)

getInterpolationArrays == getInterpolationArraysOf(sections)

---------------------------------------------------------------------------
(* useTransform(value, inputRange, outputRange): framer-motion's clamped   *)
(* piecewise-linear interpolation, as called by useSuitScrollAnimation.    *)

\* clamp without its lower bound.
clampUpperOnly(min, max, v) == IF Less(max, v) THEN max ELSE v

\* clamp(min, max, v)
clamp(min, max, v) ==
  IF Less(max, v) THEN max ELSE IF Less(v, min) THEN min ELSE v

\* progress without the position's offset: value / (to - from).
progressFromZero(from, to, value) ==
  LET toFromDifference == Sub(to, from)
  IN  IF toFromDifference = Zero THEN One
      ELSE Div(value, toFromDifference)

\* progress(from, to, value): the position of value inside [from, to]; a
\* zero-width range counts as completed.
progress(from, to, value) ==
  LET toFromDifference == Sub(to, from)
  IN  IF toFromDifference = Zero THEN One
      ELSE Div(Sub(value, from), toFromDifference)

\* mixNumber without the subtraction: from + to * p.
mixNumberNoDelta(from, to, p) == Add(from, Mul(to, p))

\* mixNumber starting from the wrong end: to + (to - from) * p.
mixNumberFromEnd(from, to, p) == Add(to, Mul(Sub(to, from), p))

\* mixNumber(from, to, p) = from + (to - from) * p
mixNumber(from, to, p) == Add(from, Mul(Sub(to, from), p))

\* The segment search stopping one segment early.
RECURSIVE findSegmentShort(_, _, _)
findSegmentShort(input, v, i) ==
  IF i >= Len(input) - 2 THEN i
  ELSE IF Less(v, input[i + 1]) THEN i
  ELSE findSegmentShort(input, v, i + 1)

\* The index (1-based) of the segment a clamped value falls in: the first i
\* with v < input[i + 1], the last segment when there is none.
RECURSIVE findSegment(_, _, _)
findSegment(input, v, i) ==
  IF i >= Len(input) - 1 THEN i
  ELSE IF Less(v, input[i + 1]) THEN i
  ELSE findSegment(input, v, i + 1)

Reverse(s) == [k \in 1..Len(s) |-> s[Len(s) + 1 - k]]

\* interpolate(input, output) applied to v, with the default clamp: true.  A
\* descending input range is reversed together with its outputs.
interpolate(input, output, v) ==
  IF Len(input) = 1 THEN output[1]
  ELSE IF Len(input) = 2 /\ output[1] = output[2] THEN output[2]
  ELSE LET descending == Less(input[Len(input)], input[1])
           inp == IF descending THEN Reverse(input) ELSE input
           out == IF descending THEN Reverse(output) ELSE output
           c == clamp(inp[1], inp[Len(inp)], v)
           i == findSegment(inp, c, 1)
       IN  IF input[1] = input[2] /\ Less(c, inp[1]) THEN out[1]
           ELSE mixNumber(out[i], out[i + 1], progress(inp[i], inp[i + 1], c))

useTransform(v, inputRange, outputRange) == interpolate(inputRange, outputRange, v)

---------------------------------------------------------------------------
(* Scene configuration                                                     *)

MODEL_CONFIG ==
  [ yOffset |-> Frac(0, 1), scaleMultiplier |-> Frac(1, 1), targetSize |-> Frac(3, 1),
    desktopPivotOffsetX |-> Frac(1, 2) ]

CAMERA_CONFIG ==
  [ fov |-> 45,
    defaultPosition |-> [x |-> Frac(2, 1), y |-> Frac(8, 5), z |-> Frac(5, 1)] ]

\* Math.tan((45 * Math.PI / 180) / 2) = 0.41421356..., held to three decimals.
TanHalfFov == Frac(207, 500)

\* ThreeSuitCanvas's default for the offsetXPx prop, which no caller overrides.
offsetXPx == Frac(0 - 400, 1)

\* The md layout breakpoint of SuitModel's isDesktop.
DesktopBreakpoint == 768

\* The point handed to camera.lookAt.
LookAtPoint == [x |-> Frac(0, 1), y |-> Frac(6, 5), z |-> Frac(0, 1)]

---------------------------------------------------------------------------
(* Bounding box normalisation (SuitModel's processedScene)                 *)

Vec(x, y, z) == [x |-> x, y |-> y, z |-> z]

\* Box3.isEmpty(): max below min on some axis.
isEmpty(box) ==
  \/ Less(box.max.x, box.min.x)
  \/ Less(box.max.y, box.min.y)
  \/ Less(box.max.z, box.min.z)

\* Box3.getSize(): max - min, the zero vector for an empty box.
getSize(box) ==
  IF isEmpty(box) THEN Vec(Zero, Zero, Zero)
  ELSE Vec(Sub(box.max.x, box.min.x), Sub(box.max.y, box.min.y),
           Sub(box.max.z, box.min.z))

\* Box3.getCenter(): (min + max) * 0.5, the zero vector for an empty box.
getCenter(box) ==
  IF isEmpty(box) THEN Vec(Zero, Zero, Zero)
  ELSE Vec(Mul(Add(box.min.x, box.max.x), Frac(1, 2)),
           Mul(Add(box.min.y, box.max.y), Frac(1, 2)),
           Mul(Add(box.min.z, box.max.z), Frac(1, 2)))

isDesktopOf(viewport) == viewport.width >= DesktopBreakpoint

\* The scale of the useMemo body: (targetSize / maxDimension) * scaleMultiplier.
sceneScale(box) ==
  LET size3 == getSize(box)
      maxDimension == MathMax(size3.x, size3.y, size3.z)
  IN  Mul(Div(MODEL_CONFIG.targetSize, maxDimension), MODEL_CONFIG.scaleMultiplier)

\* The useMemo body centring with the unscaled centre.
processSceneUnscaledCentre(box, isDesktop) ==
  LET center == getCenter(box)
      scale == sceneScale(box)
      desktopPivotOffsetX ==
        IF isDesktop THEN MODEL_CONFIG.desktopPivotOffsetX ELSE Zero
  IN  [ scale |-> scale,
        position |->
          Vec(Add(Neg(center.x), desktopPivotOffsetX),
              Add(Neg(center.y), MODEL_CONFIG.yOffset),
              Neg(center.z)) ]

\* The useMemo body: scale and position given to the cloned scene.
processScene(box, isDesktop) ==
  LET center == getCenter(box)
      scale == sceneScale(box)
      desktopPivotOffsetX ==
        IF isDesktop THEN MODEL_CONFIG.desktopPivotOffsetX ELSE Zero
  IN  [ scale |-> scale,
        position |->
          Vec(Add(Mul(Neg(center.x), scale), desktopPivotOffsetX),
              Add(Mul(Neg(center.y), scale), MODEL_CONFIG.yOffset),
              Mul(Neg(center.z), scale)) ]

---------------------------------------------------------------------------
(* Bounds and input sets                                                   *)

\* Frames the render loop runs in one behaviour.
MaxFrames == 1

\* Steps per unit of progress of the grid the interpolator is sampled on.
GridSteps == 40

\* Largest absolute coordinate of a sampled raw bounding box.
MaxCoord == 2

\* Frames of a behaviour that only smooths toward a constant target.
MaxSmoothFrames == 3

\* Progress values named by the scenarios: -1, 0, the breakpoints, 0.325,
\* 0.9, 1 and 2.
ScenarioProgress ==
  { Frac(0 - 1, 1), Frac(0, 1), Frac(1, 5), Frac(13, 40), Frac(9, 20), Frac(7, 10),
    Frac(17, 20), Frac(9, 10), Frac(1, 1), Frac(2, 1) }

\* The sampled progress values, from -1 to 2.
ProgressGrid ==
  { R(k, GridSteps) : k \in (0 - GridSteps)..(2 * GridSteps) } \cup ScenarioProgress

\* Progress values delivered while the scene runs.
ScrollInputs == { Frac(0, 1), Frac(1, 5), Frac(9, 10) }

\* Most sections of a sampled section list.
MaxSections == 2

\* Progress points sampled sections start and end at.
TablePoints == { Frac(0, 1), Frac(1, 2), Frac(1, 1) }

\* Progress values the transforms of a sampled table are evaluated at.
ProbePoints == { Frac(0, 1), Frac(1, 4), Frac(1, 2), Frac(3, 4), Frac(1, 1) }

\* A section from progress a to progress b whose five channel values are
\* told apart by their offsets from v.
TestSection(a, b, v) ==
  [ scrollStart |-> a, scrollEnd |-> b, rotationY |-> R(v, 1),
    zoom |-> R(v + 10, 1), cameraY |-> R(v + 20, 1), cameraX |-> R(v + 30, 1),
    opacity |-> R(v + 40, 1) ]

\* Sections with start <= end, zero-width ones included.
TestSections ==
  { sec \in { TestSection(a, b, v) : a \in TablePoints, b \in TablePoints, v \in 1..2 } :
      Leq(sec.scrollStart, sec.scrollEnd) }

\* Section lists getInterpolationArrays may be given: the list of KEYFRAMES
\* and every list of at most MaxSections sampled sections, the empty list
\* included.
TestConfigs ==
  UNION { [1..k -> TestSections] : k \in 0..MaxSections } \cup { sections }

\* Progress values the page rests at while the camera smooths.
RestProgress ==
  { Frac(0, 1), Frac(1, 5), Frac(9, 20), Frac(7, 10), Frac(17, 20), Frac(1, 1) }

\* Viewport sizes the canvas is measured at: a desktop and a mobile layout,
\* and the degenerate layouts of zero height and of zero width.
InitialSize == [width |-> 800, height |-> 400]
ViewportSizes ==
  { InitialSize, [width |-> 400, height |-> 400],
    [width |-> 800, height |-> 0], [width |-> 0, height |-> 400] }

Coords == { R(k, 1) : k \in (0 - MaxCoord)..MaxCoord }

\* Raw bounding boxes with finite corners, min <= max on every axis (flat and
\* point boxes included).
FiniteBoxes ==
  { [min |-> Vec(a, b, c), max |-> Vec(d, e, f)] :
      a \in Coords, b \in {Zero}, c \in Coords,
      d \in Coords, e \in Coords, f \in Coords }

OrderedBoxes ==
  { box \in FiniteBoxes :
      Leq(box.min.x, box.max.x) /\ Leq(box.min.y, box.max.y)
        /\ Leq(box.min.z, box.max.z) }

\* What Box3.setFromObject leaves for a scene without geometry.
EmptyBox ==
  [min |-> Vec(PosInf, PosInf, PosInf), max |-> Vec(NegInf, NegInf, NegInf)]

\* Boxes of scenes whose geometry has an infinite or NaN vertex coordinate.
InfiniteBox == [min |-> Vec(Zero, Zero, Zero), max |-> Vec(PosInf, One, One)]
NaNBox == [min |-> Vec(NaN, Zero, Zero), max |-> Vec(NaN, One, One)]

NormBoxes == OrderedBoxes \cup {EmptyBox, InfiniteBox, NaNBox}

\* The box of the asset the running scene is explored with: off-centre, its
\* largest dimension 3 wide.
SceneBox ==
  [min |-> Vec(Frac(0 - 1, 1), Zero, Zero), max |-> Vec(Frac(2, 1), Frac(2, 1), One)]

---------------------------------------------------------------------------
(* State                                                                   *)

VARIABLES
  scrollYProgress,   \* useScroll's scrollYProgress
  rotationY,         \* the five useTransform motion values
  zoom,
  cameraY,
  cameraX,
  opacity,
  size,              \* useThree().size: [width, height] in pixels
  rawBox,            \* bounding box of the loaded GLB scene
  suitMounted,       \* SuitModel is mounted and groupRef.current is set
  processedScene,    \* [scale, position] of the memoised cloned scene
  groupRotationY,    \* groupRef.current.rotation.y
  currentRotation,   \* SuitModel state
  currentZoom,       \* CameraController state
  currentCameraY,
  currentCameraX,
  queued,            \* set state calls not yet rendered: channel -> latest
  targetPosition,    \* CameraController's targetPosition ref
  cameraPosition,    \* camera.position
  cameraLookAt,      \* the point last handed to camera.lookAt
  framePhase,        \* "idle", or "camera" after the camera tick of a frame
  frames,            \* frames started so far
  configured,        \* the section list getInterpolationArrays iterates over
  arrays,            \* the hook's memoised arrays, NotBuilt before useMemo ran
  probe,             \* the last evaluation of the five transforms
  suitRender         \* what SuitModel's render read, until it is committed

vars ==
  << scrollYProgress, rotationY, zoom, cameraY, cameraX, opacity, size, rawBox,
     suitMounted, processedScene, groupRotationY, currentRotation, currentZoom,
     currentCameraY, currentCameraX, queued, targetPosition, cameraPosition,
     cameraLookAt, framePhase, frames, configured, arrays, probe, suitRender >>

channelVars == << rotationY, zoom, cameraY, cameraX, opacity >>
suitVars == << suitMounted, processedScene, groupRotationY >>
reactStateVars == << currentRotation, currentZoom, currentCameraY, currentCameraX >>
cameraVars == << targetPosition, cameraPosition, cameraLookAt >>

tableVars == << configured, arrays, probe >>
sceneVars ==
  << scrollYProgress, rotationY, zoom, cameraY, cameraX, opacity, size, rawBox,
     suitMounted, processedScene, groupRotationY, currentRotation, currentZoom,
     currentCameraY, currentCameraX, queued, targetPosition, cameraPosition,
     cameraLookAt, framePhase, frames, suitRender >>

\* arrays before useMemo ran, probe before any evaluation, and the outcome
\* of an evaluation that threw.
NotBuilt == [built |-> FALSE]
NoProbe == [evaluated |-> FALSE]
TypeError == [thrown |-> "TypeError"]

\* suitRender while no render of SuitModel waits for its commit.
NotRendered == [rendered |-> FALSE]

NoScene == [scale |-> Zero, position |-> Vec(Zero, Zero, Zero)]
NoLookAt == Vec(Zero, Zero, Zero)

\* The channel values useSuitScrollAnimation derives from progress p.
rotationYAt(p) ==
  useTransform(p, getInterpolationArrays.scrollBreakpoints,
               getInterpolationArrays.rotationValues)
zoomAt(p) ==
  useTransform(p, getInterpolationArrays.scrollBreakpoints,
               getInterpolationArrays.zoomValues)
cameraYAt(p) ==
  useTransform(p, getInterpolationArrays.scrollBreakpoints,
               getInterpolationArrays.cameraYValues)
cameraXAt(p) ==
  useTransform(p, getInterpolationArrays.scrollBreakpoints,
               getInterpolationArrays.cameraXValues)
opacityAt(p) ==
  useTransform(p, getInterpolationArrays.scrollBreakpoints,
               getInterpolationArrays.opacityValues)

\* The cameraX prop CameraController receives: Home takes rotationY, zoom,
\* cameraY and opacity from the hook and SuitBackgroundScene hands the canvas
\* rotationY, zoom and cameraY, so the prop is undefined.
cameraXProp == "undefined"

\* useMotionValue(CAMERA_CONFIG.defaultPosition[0])
defaultCameraX == CAMERA_CONFIG.defaultPosition.x

\* cameraX || defaultCameraX, read with get(): channel is the value of the
\* hook's cameraX motion value.
effectiveCameraX(channel) ==
  IF cameraXProp = "undefined" THEN defaultCameraX ELSE channel

\* The page at the top with the canvas created: CameraController is mounted
\* with its state read from the motion values, SuitModel is still suspended
\* on the asset.
SceneInit(p, box) ==
  /\ scrollYProgress = p
  /\ rotationY = rotationYAt(p)
  /\ zoom = zoomAt(p)
  /\ cameraY = cameraYAt(p)
  /\ cameraX = cameraXAt(p)
  /\ opacity = opacityAt(p)
  /\ size = InitialSize
  /\ rawBox = box
  /\ suitMounted = FALSE
  /\ processedScene = NoScene
  /\ groupRotationY = Zero
  /\ currentRotation = Zero
  /\ currentZoom = zoomAt(p)
  /\ currentCameraY = cameraYAt(p)
  /\ currentCameraX = effectiveCameraX(cameraXAt(p))
  /\ queued = << >>
  /\ targetPosition = CAMERA_CONFIG.defaultPosition
  /\ cameraPosition = CAMERA_CONFIG.defaultPosition
  /\ cameraLookAt = NoLookAt
  /\ framePhase = "idle"
  /\ frames = 0
  /\ suitRender = NotRendered

\* The scene with the hook mounted: useMemo has built the arrays from the
\* section list of KEYFRAMES.
InitWith(p, box) ==
  /\ SceneInit(p, box)
  /\ configured = sections
  /\ arrays = getInterpolationArrays
  /\ probe = NoProbe

Init == InitWith(Zero, SceneBox)

---------------------------------------------------------------------------
(* Operations                                                              *)

\* The five channel values at progress p, as one record.
channelsAt(p) ==
  [ rotationY |-> rotationYAt(p), zoom |-> zoomAt(p), cameraY |-> cameraYAt(p),
    cameraX |-> cameraXAt(p), opacity |-> opacityAt(p) ]

\* The channels whose change listener fires when the motion values go to
\* latest: every listened channel whose value changed (SuitModel listens
\* only while mounted; opacity is bound to the style, not listened to).
Notified(latest) ==
  { c \in {"zoom", "cameraY", "cameraX", "rotationY"} :
      \/ c = "zoom" /\ latest.zoom # zoom
      \/ c = "cameraY" /\ latest.cameraY # cameraY
      \/ c = "cameraX"
           /\ effectiveCameraX(latest.cameraX) # effectiveCameraX(cameraX)
      \/ c = "rotationY" /\ suitMounted /\ latest.rotationY # rotationY }

\* A scroll event: scrollYProgress goes to p, the five transforms follow and
\* each change listener queues its set state call with the latest value.
Scroll(p) ==
  /\ framePhase = "idle"
  /\ p # scrollYProgress
  /\ scrollYProgress' = p
  /\ \E latest \in {channelsAt(p)} :
       \E fired \in {Notified(latest)} :
         /\ rotationY' = latest.rotationY
         /\ zoom' = latest.zoom
         /\ cameraY' = latest.cameraY
         /\ cameraX' = latest.cameraX
         /\ opacity' = latest.opacity
         /\ queued' = [c \in (DOMAIN queued) \cup fired |->
                         IF c \notin fired THEN queued[c]
                         ELSE IF c = "cameraX"
                           THEN effectiveCameraX(latest.cameraX)
                           ELSE latest[c]]
  /\ UNCHANGED << size, rawBox, suitVars, reactStateVars, cameraVars,
                  framePhase, frames,
                  tableVars, suitRender >>

Queued(c, old) == IF c \in DOMAIN queued THEN queued[c] ELSE old

\* React renders the queued set state calls: the frame callbacks see the new
\* state from the next tick on.
Rerender ==
  /\ framePhase = "idle"
  /\ queued # << >>
  /\ currentRotation' = Queued("rotationY", currentRotation)
  /\ currentZoom' = Queued("zoom", currentZoom)
  /\ currentCameraY' = Queued("cameraY", currentCameraY)
  /\ currentCameraX' = Queued("cameraX", currentCameraX)
  /\ queued' = << >>
  /\ UNCHANGED << scrollYProgress, channelVars, size, rawBox, suitVars,
                  cameraVars, framePhase, frames,
                  tableVars, suitRender >>

\* A lerp that never leaves its starting value.
lerpComponentHold(from, to, alpha) == from

\* A lerp that lands beyond its target: to + (to - from) * alpha.
lerpComponentPast(from, to, alpha) == Add(to, Mul(Sub(to, from), alpha))

\* Vector3.lerp on one component: this.x += (v.x - this.x) * alpha
lerpComponent(from, to, alpha) == Add(from, Mul(Sub(to, from), alpha))

Vector3Lerp(from, to, alpha) ==
  Vec(lerpComponent(from.x, to.x, alpha), lerpComponent(from.y, to.y, alpha),
      lerpComponent(from.z, to.z, alpha))

\* THREE.MathUtils.lerp(x, y, t) = (1 - t) * x + t * y
MathUtilsLerp(x, y, t) == Add(Mul(Sub(One, t), x), Mul(t, y))

\* The target with the distance growing with the zoom: baseZ * zoom.
cameraTargetScaled(viewport, zoomNow, cameraYNow, cameraXNow) ==
  LET baseZ == CAMERA_CONFIG.defaultPosition.z
      distance == Mul(baseZ, zoomNow)
      viewportHeightAtDist == Mul(Mul(Frac(2, 1), TanHalfFov), distance)
      aspect == Div(R(viewport.width, 1), R(viewport.height, 1))
      viewportWidthAtDist == Mul(viewportHeightAtDist, aspect)
      worldOffsetX == Mul(Div(offsetXPx, R(viewport.width, 1)), viewportWidthAtDist)
  IN  Vec(Add(cameraXNow, worldOffsetX), cameraYNow, distance)

\* The target with the pixel offset converted at the base distance instead
\* of the current one.
cameraTargetBaseOffset(viewport, zoomNow, cameraYNow, cameraXNow) ==
  LET baseZ == CAMERA_CONFIG.defaultPosition.z
      distance == Div(baseZ, zoomNow)
      viewportHeightAtDist == Mul(Mul(Frac(2, 1), TanHalfFov), baseZ)
      aspect == Div(R(viewport.width, 1), R(viewport.height, 1))
      viewportWidthAtDist == Mul(viewportHeightAtDist, aspect)
      worldOffsetX == Mul(Div(offsetXPx, R(viewport.width, 1)), viewportWidthAtDist)
  IN  Vec(Add(cameraXNow, worldOffsetX), cameraYNow, distance)

\* The target position CameraController's frame callback computes.
cameraTarget(viewport, zoomNow, cameraYNow, cameraXNow) ==
  LET baseZ == CAMERA_CONFIG.defaultPosition.z
      distance == Div(baseZ, zoomNow)
      viewportHeightAtDist == Mul(Mul(Frac(2, 1), TanHalfFov), distance)
      aspect == Div(R(viewport.width, 1), R(viewport.height, 1))
      viewportWidthAtDist == Mul(viewportHeightAtDist, aspect)
      worldOffsetX == Mul(Div(offsetXPx, R(viewport.width, 1)), viewportWidthAtDist)
  IN  Vec(Add(cameraXNow, worldOffsetX), cameraYNow, distance)

\* A camera callback that looks at the height of its target.
CameraFrameLookingLevel(limit) ==
  /\ framePhase = "idle"
  /\ frames < limit
  /\ frames' = frames + 1
  /\ framePhase' = "camera"
  /\ targetPosition' = cameraTarget(size, currentZoom, currentCameraY, currentCameraX)
  /\ cameraPosition' = Vector3Lerp(cameraPosition, targetPosition', Frac(1, 20))
  /\ cameraLookAt' = Vec(Zero, currentCameraY, Zero)
  /\ UNCHANGED << scrollYProgress, channelVars, size, rawBox, suitVars,
                  reactStateVars, queued,
                  tableVars, suitRender >>

\* CameraController's useFrame callback, the first subscriber of a frame;
\* limit caps the number of frames a behaviour runs.
CameraFrameWithin(limit) ==
  /\ framePhase = "idle"
  /\ frames < limit
  /\ frames' = frames + 1
  /\ framePhase' = "camera"
  /\ targetPosition' = cameraTarget(size, currentZoom, currentCameraY, currentCameraX)
  /\ cameraPosition' = Vector3Lerp(cameraPosition, targetPosition', Frac(1, 20))
  /\ cameraLookAt' = LookAtPoint
  /\ UNCHANGED << scrollYProgress, channelVars, size, rawBox, suitVars,
                  reactStateVars, queued,
                  tableVars, suitRender >>

CameraFrame == CameraFrameWithin(MaxFrames)

\* A model callback without the check of groupRef.current, turning toward
\* the rotation channel.
RotationFrameUnguarded ==
  /\ framePhase = "camera"
  /\ framePhase' = "idle"
  /\ groupRotationY' = MathUtilsLerp(groupRotationY, rotationY, Frac(1, 10))
  /\ UNCHANGED << scrollYProgress, channelVars, size, rawBox, suitMounted,
                  processedScene, reactStateVars, queued, cameraVars, frames,
                  tableVars, suitRender >>

\* A model callback that also moves the camera onto its target.
RotationFrameMovingCamera ==
  /\ framePhase = "camera"
  /\ framePhase' = "idle"
  /\ groupRotationY' =
       IF suitMounted THEN MathUtilsLerp(groupRotationY, currentRotation, Frac(1, 10))
       ELSE groupRotationY
  /\ cameraPosition' = targetPosition
  /\ UNCHANGED << scrollYProgress, channelVars, size, rawBox, suitMounted,
                  processedScene, reactStateVars, queued, targetPosition,
                  cameraLookAt, frames,
                  tableVars, suitRender >>

\* SuitModel's useFrame callback, which follows the camera's in the same
\* frame; it does nothing while groupRef.current is null.
RotationFrame ==
  /\ framePhase = "camera"
  /\ framePhase' = "idle"
  /\ groupRotationY' =
       IF suitMounted THEN MathUtilsLerp(groupRotationY, currentRotation, Frac(1, 10))
       ELSE groupRotationY
  /\ UNCHANGED << scrollYProgress, channelVars, size, rawBox, suitMounted,
                  processedScene, reactStateVars, queued, cameraVars, frames,
                  tableVars, suitRender >>

\* A mount that turns the group to the rotation it read.
LoadModelTurned ==
  /\ framePhase = "idle"
  /\ ~suitMounted
  /\ queued = << >>
  /\ suitMounted' = TRUE
  /\ currentRotation' = rotationY
  /\ groupRotationY' = rotationY
  /\ processedScene' = processScene(rawBox, isDesktopOf(size))
  /\ UNCHANGED << scrollYProgress, channelVars, size, rawBox,
                  currentZoom, currentCameraY, currentCameraX, queued,
                  cameraVars, framePhase, frames,
                  tableVars, suitRender >>

\* The asset has loaded: SuitModel mounts, reads rotationY, normalises the
\* scene for the current layout and attaches the group.  The retry of the
\* suspended subtree is rendered after the set state calls already queued.
LoadModel ==
  /\ framePhase = "idle"
  /\ ~suitMounted
  /\ queued = << >>
  /\ suitMounted' = TRUE
  /\ currentRotation' = rotationY
  /\ processedScene' = processScene(rawBox, isDesktopOf(size))
  /\ UNCHANGED << scrollYProgress, channelVars, size, rawBox, groupRotationY,
                  currentZoom, currentCameraY, currentCameraX, queued,
                  cameraVars, framePhase, frames,
                  tableVars, suitRender >>

\* A resize that keeps the processed scene of the layout it leaves.
ResizeKeepingScene(measured) ==
  /\ framePhase = "idle"
  /\ measured # size
  /\ size' = measured
  /\ UNCHANGED << scrollYProgress, channelVars, rawBox, suitVars,
                  reactStateVars, queued, cameraVars, framePhase, frames,
                  tableVars, suitRender >>

\* The mount of SuitModel in its two phases.  The render calls
\* useState(rotationY.get()); the retry of the suspended subtree is rendered
\* after the set state calls already queued.
RenderModel ==
  /\ framePhase = "idle"
  /\ ~suitMounted
  /\ suitRender = NotRendered
  /\ queued = << >>
  /\ suitRender' = [rotation |-> rotationY]
  /\ UNCHANGED << scrollYProgress, channelVars, size, rawBox, suitVars,
                  reactStateVars, queued, cameraVars, framePhase, frames,
                  tableVars >>

\* The commit attaches the group, registers the change listener of
\* useMotionValueEvent and leaves the state at the value the render read; the
\* scene is the one memoised for the layout of the committed render.
CommitModel ==
  /\ framePhase = "idle"
  /\ suitRender # NotRendered
  /\ suitMounted' = TRUE
  /\ currentRotation' = suitRender.rotation
  /\ processedScene' = processScene(rawBox, isDesktopOf(size))
  /\ suitRender' = NotRendered
  /\ UNCHANGED << scrollYProgress, channelVars, size, rawBox, groupRotationY,
                  currentZoom, currentCameraY, currentCameraX, queued,
                  cameraVars, framePhase, frames,
                  tableVars >>

\* The canvas is measured at a new size; useMemo recomputes the processed
\* scene when isDesktop changed.
Resize(measured) ==
  /\ framePhase = "idle"
  /\ measured # size
  /\ size' = measured
  /\ processedScene' =
       IF suitMounted /\ isDesktopOf(size') # isDesktopOf(size)
       THEN processScene(rawBox, isDesktopOf(size'))
       ELSE processedScene
  /\ UNCHANGED << scrollYProgress, channelVars, rawBox, suitMounted,
                  groupRotationY, reactStateVars, queued, cameraVars,
                  framePhase, frames,
                  tableVars, suitRender >>

\* useMemo(() => getInterpolationArrays(), []) on the hook's first render.
BuildArrays ==
  /\ arrays = NotBuilt
  /\ arrays' = getInterpolationArraysOf(configured)
  /\ UNCHANGED << sceneVars, configured, probe >>

\* The five useTransform values of the arrays arr at progress p.  With no
\* breakpoint at all the interpolator has no mixer to call and throws.
transformsOf(arr, p) ==
  IF Len(arr.scrollBreakpoints) = 0 THEN TypeError
  ELSE [ rotationY |-> useTransform(p, arr.scrollBreakpoints, arr.rotationValues),
         zoom |-> useTransform(p, arr.scrollBreakpoints, arr.zoomValues),
         cameraY |-> useTransform(p, arr.scrollBreakpoints, arr.cameraYValues),
         cameraX |-> useTransform(p, arr.scrollBreakpoints, arr.cameraXValues),
         opacity |-> useTransform(p, arr.scrollBreakpoints, arr.opacityValues) ]

\* The five transforms are evaluated at progress p over the memoised arrays.
Sample(p) ==
  /\ arrays # NotBuilt
  /\ IF probe = NoProbe THEN TRUE ELSE probe.at # p
  /\ probe' = [at |-> p, value |-> transformsOf(arrays, p)]
  /\ UNCHANGED << sceneVars, configured, arrays >>

Next ==
  \/ \E p \in ScrollInputs : Scroll(p)
  \/ Rerender
  \/ CameraFrame
  \/ RotationFrame
  \/ LoadModel
  \/ \E measured \in ViewportSizes : Resize(measured)

Spec == Init /\ [][Next]_vars

\* The interpolator alone: scroll events over the whole progress grid.
NextInterp == \E p \in ProgressGrid : Scroll(p)

InitInterp == InitWith(Zero, EmptyBox)

SpecInterp == InitInterp /\ [][NextInterp]_vars

\* The normaliser alone: any sampled asset, loaded and re-laid-out.
InitNorm == \E box \in NormBoxes : InitWith(Zero, box)

NextNorm ==
  \/ LoadModel
  \/ \E measured \in ViewportSizes : Resize(measured)

SpecNorm == InitNorm /\ [][NextNorm]_vars

\* The mount of SuitModel taken phase by phase, while the page is scrolled
\* and the render loop runs.
NextMount ==
  \/ \E p \in ScrollInputs : Scroll(p)
  \/ Rerender
  \/ CameraFrame
  \/ RotationFrame
  \/ RenderModel
  \/ CommitModel

SpecMount == Init /\ [][NextMount]_vars

\* The table construction and the transforms alone, over sampled section
\* lists: the hook has not run yet, the scene variables stay as constructed.
InitTable ==
  \E secs \in TestConfigs :
    /\ SceneInit(Zero, EmptyBox)
    /\ configured = secs
    /\ arrays = NotBuilt
    /\ probe = NoProbe

NextTable ==
  \/ BuildArrays
  \/ \E p \in ProbePoints : Sample(p)

SpecTable == InitTable /\ [][NextTable]_vars

\* The smoothing alone: the page rests at some progress, so the camera
\* target is constant, while the render loop keeps ticking and the asset may
\* finish loading.
InitSmooth == \E p \in RestProgress : InitWith(p, SceneBox)

NextSmooth ==
  \/ CameraFrameWithin(MaxSmoothFrames)
  \/ RotationFrame
  \/ LoadModel

\* The render loop starts a frame by calling CameraController's callback
\* and ends it with SuitModel's: the steps CameraFrameWithin and
\* RotationFrame take, by their effect on framePhase alone.
FrameStarts ==
  framePhase = "idle" /\ frames < MaxSmoothFrames /\ framePhase' = "camera"

FrameEnds == framePhase = "camera" /\ framePhase' = "idle"

\* requestAnimationFrame keeps calling both frame callbacks, hence the weak
\* fairness on the start and on the end of a frame.
SpecSmooth ==
  /\ InitSmooth
  /\ [][NextSmooth]_vars
  /\ WF_framePhase(FrameStarts)
  /\ WF_framePhase(FrameEnds)

---------------------------------------------------------------------------
(* Properties of the keyframe interpolation (SpecInterp)                   *)

breakpoints == getInterpolationArrays.scrollBreakpoints

\* The value tables and the current motion values, channel by channel.
ChannelNames == {"rotationY", "zoom", "cameraY", "cameraX", "opacity"}

valuesOf(c) ==
  IF c = "rotationY" THEN getInterpolationArrays.rotationValues
  ELSE IF c = "zoom" THEN getInterpolationArrays.zoomValues
  ELSE IF c = "cameraY" THEN getInterpolationArrays.cameraYValues
  ELSE IF c = "cameraX" THEN getInterpolationArrays.cameraXValues
  ELSE getInterpolationArrays.opacityValues

current(c) ==
  IF c = "rotationY" THEN rotationY
  ELSE IF c = "zoom" THEN zoom
  ELSE IF c = "cameraY" THEN cameraY
  ELSE IF c = "cameraX" THEN cameraX
  ELSE opacity

\* Segment i of the table brackets p: breakpoints[i] <= p <= breakpoints[i+1].
Brackets(i, p) == Leq(breakpoints[i], p) /\ Leq(p, breakpoints[i + 1])

Segments == 1..(Len(breakpoints) - 1)

\* The reference line through (p0, v0) and (p1, v1), evaluated at p:
\* v0 + (v1 - v0) * (p - p0) / (p1 - p0).
RefLinear(p0, v0, p1, v1, p) ==
  Add(v0, Div(Mul(Sub(v1, v0), Sub(p, p0)), Sub(p1, p0)))

\* C1: at or below the first breakpoint every channel holds its first
\* authored value, at or above the last breakpoint its last one; the values at
\* progress -1 are those at 0, the values at 2 are those at 1; the segment
\* index used always lies inside the table.
C1_Clamping ==
  LET n == Len(breakpoints)
      seg == findSegment(breakpoints,
                         clamp(breakpoints[1], breakpoints[n], scrollYProgress), 1)
  IN  /\ seg \in 1..(n - 1)
      /\ \A c \in ChannelNames :
           /\ Leq(scrollYProgress, breakpoints[1]) => current(c) = valuesOf(c)[1]
           /\ Leq(breakpoints[n], scrollYProgress) => current(c) = valuesOf(c)[n]
           /\ scrollYProgress = Frac(0 - 1, 1) => current(c) = channelsAt(Zero)[c]
           /\ scrollYProgress = Frac(2, 1) => current(c) = channelsAt(One)[c]

\* A scroll to progress -1 left every channel at its first authored value.
C1_Witness ==
  /\ scrollYProgress = Frac(0 - 1, 1)
  /\ rotationY = Frac(7, 20)
  /\ zoom = Frac(3, 1)

\* C2: inside the table every channel equals the reference line through the
\* two breakpoints of every segment that brackets the progress.
C2_PiecewiseLinear ==
  \A c \in ChannelNames : \A i \in Segments :
    Brackets(i, scrollYProgress) =>
      current(c) = RefLinear(breakpoints[i], valuesOf(c)[i], breakpoints[i + 1],
                             valuesOf(c)[i + 1], scrollYProgress)

\* Progress 0.325, strictly inside the craft segment: rotation 1.7781.
C2_Witness ==
  /\ scrollYProgress = Frac(13, 40)
  /\ rotationY = Frac(17781, 10000)

C4_VisibleUntilContact ==
  (Leq(Zero, scrollYProgress) /\ Leq(scrollYProgress, Frac(17, 20)))
    => opacity = One

\* C5: at every interior breakpoint each channel holds the value authored
\* there, and the segment to its left, followed to its end, arrives at that
\* same value.
C5_Continuity ==
  \A c \in ChannelNames : \A i \in 2..(Len(breakpoints) - 1) :
    scrollYProgress = breakpoints[i] =>
      /\ current(c) = valuesOf(c)[i]
      /\ mixNumber(valuesOf(c)[i - 1], valuesOf(c)[i],
                   progress(breakpoints[i - 1], breakpoints[i], scrollYProgress))
           = valuesOf(c)[i]

\* A scroll to the collection breakpoint 0.45 left the rotation at its
\* authored value.
C5_Witness ==
  /\ scrollYProgress = Frac(9, 20)
  /\ rotationY = ThreeQuarterPi
  /\ zoom = Frac(19, 20)

Between(lo, x, hi) == Leq(Min2(lo, hi), x) /\ Leq(x, Max2(lo, hi))

\* The channel values before and after a step stay in the order of the
\* segment's end values when the progress moves forward inside segment i.
MonotoneStep(c, i) ==
  (Brackets(i, scrollYProgress) /\ Brackets(i, scrollYProgress')
     /\ Leq(scrollYProgress, scrollYProgress'))
    => IF Leq(valuesOf(c)[i], valuesOf(c)[i + 1])
       THEN Leq(current(c), current(c)')
       ELSE Leq(current(c)', current(c))

\* C6: after every step each channel lies between the two values of every
\* segment bracketing the progress, and a step forward inside one segment
\* moves each channel in the direction of that segment (or leaves it).
C6_NoOvershoot ==
  [][ \A c \in ChannelNames : \A i \in Segments :
        /\ Brackets(i, scrollYProgress') =>
             Between(valuesOf(c)[i], current(c)', valuesOf(c)[i + 1])
        /\ MonotoneStep(c, i) ]_vars

\* Progress 0.325: the rotation lies strictly between its craft and
\* collection values.
C6_Witness ==
  /\ scrollYProgress = Frac(13, 40)
  /\ Less(Frac(6, 5), rotationY)
  /\ Less(rotationY, ThreeQuarterPi)

\* x rounded to three decimals, in thousandths (x finite).
Round3(x) == (2000 * x.n + x.d) \div (2 * x.d)

\* C7: the progress points are [0, 0.2, 0.45, 0.7, 0.85, 1], the rotation
\* values are [0.35, 1.2, 2.356, 2.0, 2.2, 2.2] to three decimals, and at
\* progress 0.325 the rotation is the midpoint of the second and third values,
\* 1.778 to three decimals.
C7_RotationScenario ==
  /\ breakpoints =
       << Zero, Frac(1, 5), Frac(9, 20), Frac(7, 10), Frac(17, 20), One >>
  /\ [i \in 1..Len(getInterpolationArrays.rotationValues) |->
        Round3(getInterpolationArrays.rotationValues[i])]
       = << 350, 1200, 2356, 2000, 2200, 2200 >>
  /\ scrollYProgress = Frac(13, 40) =>
       /\ Add(rotationY, rotationY)
            = Add(getInterpolationArrays.rotationValues[2],
                  getInterpolationArrays.rotationValues[3])
       /\ Round3(rotationY) = 1778

\* A scroll to progress 0.325 left the rotation at 1.778 to three decimals.
C7_Witness == scrollYProgress = Frac(13, 40) /\ Round3(rotationY) = 1778

---------------------------------------------------------------------------
(* Properties of the camera tick (Spec) and of the normaliser (SpecNorm)   *)

FiniteVec(v) == IsFinite(v.x) /\ IsFinite(v.y) /\ IsFinite(v.z)

\* C8 as claimed: a camera tick that runs with viewport height 0 or width 0
\* leaves the camera position as it was, every component finite.
C8_DegenerateViewportSkipped ==
  [][ (framePhase = "idle" /\ framePhase' = "camera"
         /\ (size.height = 0 \/ size.width = 0))
        => (cameraPosition' = cameraPosition /\ FiniteVec(cameraPosition')) ]_vars

\* The largest dimension of the raw bounding box.
maxDimensionOf(box) ==
  MathMax(getSize(box).x, getSize(box).y, getSize(box).z)

\* The raw box's largest dimension is zero or not finite.
DegenerateGeometry(box) ==
  ~IsFinite(maxDimensionOf(box)) \/ maxDimensionOf(box) = Zero

\* C9 as claimed: a model whose raw box has a zero or non-finite largest
\* dimension is never given an infinite or NaN scale or position.
C9_DegenerateGeometryRejected ==
  (suitMounted /\ DegenerateGeometry(rawBox))
    => (IsFinite(processedScene.scale) /\ FiniteVec(processedScene.position))

\* The processed scene's scale and translation applied to a raw point.
applyTransform(v) ==
  Vec(Add(Mul(v.x, processedScene.scale), processedScene.position.x),
      Add(Mul(v.y, processedScene.scale), processedScene.position.y),
      Add(Mul(v.z, processedScene.scale), processedScene.position.z))

\* The raw box's extreme corners after the transform.
transformedBox == [min |-> applyTransform(rawBox.min), max |-> applyTransform(rawBox.max)]

\* The pivot offset of the layout the viewport is in.
pivotOffsetX == IF isDesktopOf(size) THEN MODEL_CONFIG.desktopPivotOffsetX ELSE Zero

\* C10: for a raw box whose largest dimension is positive and finite, the
\* transformed box is centred at (pivotOffsetX, yOffset, 0) and its largest
\* dimension is targetSize * scaleMultiplier.
C10_NormalizerRoundTrip ==
  (suitMounted /\ IsFinite(maxDimensionOf(rawBox)) /\ Less(Zero, maxDimensionOf(rawBox)))
    => /\ processedScene.scale
            = Mul(Div(MODEL_CONFIG.targetSize, maxDimensionOf(rawBox)),
                  MODEL_CONFIG.scaleMultiplier)
       /\ getCenter(transformedBox) = Vec(pivotOffsetX, MODEL_CONFIG.yOffset, Zero)
       /\ maxDimensionOf(transformedBox)
            = Mul(MODEL_CONFIG.targetSize, MODEL_CONFIG.scaleMultiplier)

\* An off-centre box 2 x 1 x 4 was normalised with scale 3/4 on the desktop
\* layout.
C10_Witness ==
  /\ suitMounted
  /\ rawBox = [min |-> Vec(Zero, Zero, Frac(0 - 2, 1)), max |-> Vec(Frac(2, 1), One, Frac(2, 1))]
  /\ isDesktopOf(size)
  /\ processedScene.scale = Frac(3, 4)
  /\ processedScene.position = Vec(Frac(0 - 1, 4), Frac(0 - 3, 8), Zero)

---------------------------------------------------------------------------
(* Properties of the camera target and of the smoothing (Spec)             *)

\* A step that is CameraController's frame callback.
CameraTick == framePhase = "idle" /\ framePhase' = "camera"

\* A step that is SuitModel's frame callback.
RotationTick == framePhase = "camera" /\ framePhase' = "idle"

\* distance = baseDistance / zoom, with baseDistance 5.
refDistance(zoomNow) == Div(Frac(5, 1), zoomNow)

\* worldOffsetX = (pixelOffsetX / viewportWidth) * worldViewportWidthAtDistance
\* with worldViewportWidthAtDistance
\*   = 2 * tan(fov / 2) * distance * (viewportWidth / viewportHeight).
refWorldOffsetX(viewport, zoomNow) ==
  Mul(Div(offsetXPx, R(viewport.width, 1)),
      Mul(Mul(Mul(Frac(2, 1), TanHalfFov), refDistance(zoomNow)),
          Div(R(viewport.width, 1), R(viewport.height, 1))))

\* C11 as claimed: on every camera tick the target is
\* (cameraX channel + worldOffsetX, cameraY channel, distance), the channels
\* being the values interpolated for the current scroll progress.
C11_TargetFromChannels ==
  [][ CameraTick
        => targetPosition'
             = Vec(Add(cameraX, refWorldOffsetX(size, zoom)), cameraY,
                   refDistance(zoom)) ]_vars

\* C13: on a tick whose camera position and target are numbers, each
\* component of the camera position ends in the closed interval between its
\* value before the tick and its target, and so does the subject's Y
\* rotation on a tick of the mounted model: neither passes its target.
C13_NoOvershootSmoothing ==
  [][ /\ (CameraTick /\ FiniteVec(cameraPosition) /\ FiniteVec(targetPosition'))
           => /\ Between(cameraPosition.x, cameraPosition'.x, targetPosition'.x)
              /\ Between(cameraPosition.y, cameraPosition'.y, targetPosition'.y)
              /\ Between(cameraPosition.z, cameraPosition'.z, targetPosition'.z)
      /\ (RotationTick /\ suitMounted)
           => Between(groupRotationY, groupRotationY', currentRotation) ]_vars

\* After one frame the camera's z lies strictly between its target and the
\* 5 it started at, and the mounted model's rotation strictly between 0 and
\* its target.
C13_Witness ==
  /\ frames = 1
  /\ framePhase = "idle"
  /\ suitMounted
  /\ Less(targetPosition.z, cameraPosition.z)
  /\ Less(cameraPosition.z, Frac(5, 1))
  /\ Less(Zero, groupRotationY)
  /\ Less(groupRotationY, currentRotation)

\* The zoom values authored in the keyframes.
ZoomValues ==
  { getInterpolationArrays.zoomValues[i] :
      i \in 1..Len(getInterpolationArrays.zoomValues) }

visibleWidthAt(viewport, d) ==
  Mul(Mul(Mul(Frac(2, 1), TanHalfFov), d),
      Div(R(viewport.width, 1), R(viewport.height, 1)))

\* C15: on a camera tick in a viewport of positive width and height the
\* world offset added to the target's x is
\* (pixelOffsetX / width) * 2 * tan(fov / 2) * distance * (width / height);
\* times the zoom it is the same for every zoom, and as a fraction of the
\* width visible at the target's distance it is pixelOffsetX / width.
C15_PixelToWorld ==
  [][ (CameraTick /\ size.width > 0 /\ size.height > 0)
        => /\ Sub(targetPosition'.x, currentCameraX)
                = refWorldOffsetX(size, currentZoom)
           /\ Mul(Sub(targetPosition'.x, currentCameraX), currentZoom)
                = refWorldOffsetX(size, One)
           /\ Div(Sub(targetPosition'.x, currentCameraX),
                  visibleWidthAt(size, targetPosition'.z))
                = Div(offsetXPx, R(size.width, 1)) ]_vars

\* A tick ran at zoom 0.98 in the 400 x 400 viewport: the world offset is
\* -400/400 of the width 2 * 0.414 * (5 / 0.98) visible there.
C15_Witness ==
  /\ frames = 1
  /\ size = [width |-> 400, height |-> 400]
  /\ currentZoom = zoomAt(Frac(9, 10))
  /\ Sub(targetPosition.x, currentCameraX)
       = Neg(Mul(Frac(207, 250), Div(Frac(5, 1), zoomAt(Frac(9, 10)))))

\* C16 as claimed: the zoom, cameraY and cameraX a camera tick uses and the
\* rotation the rotation tick of the same frame uses are the channel values
\* of one and the same scroll progress.
C16_SameSnapshot ==
  [][ CameraTick
        => \E p \in ScrollInputs :
             /\ currentZoom = zoomAt(p)
             /\ currentCameraY = cameraYAt(p)
             /\ currentCameraX = cameraXAt(p)
             /\ (suitMounted => currentRotation = rotationYAt(p)) ]_vars

---------------------------------------------------------------------------
(* Properties of the smoothing toward a constant target (SpecSmooth)       *)

\* |a|
AbsR(a) == IF Less(a, Zero) THEN Neg(a) ELSE a

\* The target the camera tick computes from the current state.
restTarget == cameraTarget(size, currentZoom, currentCameraY, currentCameraX)

\* The distance from a position to the target, as the largest component
\* distance.
distanceToTarget(position) ==
  MathMax(AbsR(Sub(position.x, restTarget.x)), AbsR(Sub(position.y, restTarget.y)),
          AbsR(Sub(position.z, restTarget.z)))

\* The ticks after which the camera, starting at most 22/5 from its target,
\* is closer than eps to it: 4 after two ticks, 19/5 after three.
ticksFor(eps) == IF eps = Frac(4, 1) THEN 2 ELSE 3

EpsSet == { Frac(4, 1), Frac(19, 5) }

\* (19/20)^k
RECURSIVE shrink(_)
shrink(k) == IF k = 0 THEN One ELSE Mul(Frac(19, 20), shrink(k - 1))

\* C12: with the target constant, the distance to the target after k camera
\* ticks is (19/20)^k of the distance the camera started at, so no tick
\* increases it, and for each eps of EpsSet the render loop reaches the tick
\* from which on the camera is closer than eps to the target.
C12_SmoothingConverges ==
  /\ [](distanceToTarget(cameraPosition)
          = Mul(shrink(frames), distanceToTarget(CAMERA_CONFIG.defaultPosition)))
  /\ [](\A eps \in EpsSet :
          frames >= ticksFor(eps) => Less(distanceToTarget(cameraPosition), eps))
  /\ \A eps \in EpsSet : <>(frames >= ticksFor(eps))

\* The camera started more than 4 away from its target and is now, after
\* three ticks, closer than 19/5 to it.
C12_Witness ==
  /\ frames = 3
  /\ Less(Frac(4, 1), distanceToTarget(CAMERA_CONFIG.defaultPosition))
  /\ Less(distanceToTarget(cameraPosition), Frac(19, 5))
  /\ Less(Zero, distanceToTarget(cameraPosition))

---------------------------------------------------------------------------
(* Properties of the table construction (SpecTable)                        *)

tableBuilt == arrays # NotBuilt

probed == probe # NoProbe

nondecreasing(bp) == \A i \in 1..(Len(bp) - 1) : Leq(bp[i], bp[i + 1])

increasing(bp) == \A i \in 1..(Len(bp) - 1) : Less(bp[i], bp[i + 1])

\* The five channel values a section authors, and those the arrays hold at
\* index i, as records.
authored(section) ==
  [ rotationY |-> section.rotationY, zoom |-> section.zoom,
    cameraY |-> section.cameraY, cameraX |-> section.cameraX,
    opacity |-> section.opacity ]

valuesAt(arr, i) ==
  [ rotationY |-> arr.rotationValues[i], zoom |-> arr.zoomValues[i],
    cameraY |-> arr.cameraYValues[i], cameraX |-> arr.cameraXValues[i],
    opacity |-> arr.opacityValues[i] ]

\* C17 as claimed: in a table with non-decreasing breakpoints, where two
\* consecutive breakpoints have the same progress the transforms evaluated
\* at that progress give the values authored at the first of the two (the
\* zero-width section's own), and nothing is thrown.
C17_DegenerateSection ==
  (tableBuilt /\ probed /\ nondecreasing(arrays.scrollBreakpoints))
    => \A i \in 1..(Len(arrays.scrollBreakpoints) - 1) :
         (/\ arrays.scrollBreakpoints[i] = arrays.scrollBreakpoints[i + 1]
          /\ probe.at = arrays.scrollBreakpoints[i])
           => probe.value = valuesAt(arrays, i)

\* C18 as claimed: a section list without any section never gets past the
\* table construction: no arrays are built from it and no transform is
\* evaluated over them.
C18_EmptyTableRejected ==
  Len(configured) = 0 => (~tableBuilt /\ ~probed)

\* C19: the arrays built from n >= 1 sections have n + 1 entries each; entry
\* i <= n is section i's scrollStart with section i's five values, entry
\* n + 1 is the last section's scrollEnd with the last section's values.
C19_TableStructure ==
  (tableBuilt /\ Len(configured) >= 1)
    => LET n == Len(configured)
       IN  /\ Len(arrays.scrollBreakpoints) = n + 1
           /\ Len(arrays.rotationValues) = n + 1
           /\ Len(arrays.zoomValues) = n + 1
           /\ Len(arrays.cameraYValues) = n + 1
           /\ Len(arrays.cameraXValues) = n + 1
           /\ Len(arrays.opacityValues) = n + 1
           /\ \A i \in 1..n :
                /\ arrays.scrollBreakpoints[i] = configured[i].scrollStart
                /\ valuesAt(arrays, i) = authored(configured[i])
           /\ arrays.scrollBreakpoints[n + 1] = configured[n].scrollEnd
           /\ valuesAt(arrays, n + 1) = authored(configured[n])
           /\ valuesAt(arrays, n + 1) = valuesAt(arrays, n)

\* The arrays of a section from 0 to 1/2 followed by one from 1/2 to 1.
C19_Witness ==
  /\ tableBuilt
  /\ Len(configured) = 2
  /\ arrays.scrollBreakpoints = << Frac(0, 1), Frac(1, 2), Frac(1, 1) >>
  /\ arrays.rotationValues = << Frac(1, 1), Frac(2, 1), Frac(2, 1) >>
  /\ arrays.zoomValues = << Frac(11, 1), Frac(12, 1), Frac(12, 1) >>

\* Every section starts before or where it ends, and ends before or where
\* the next one starts.
orderedSections(secs) ==
  /\ \A i \in 1..Len(secs) : Leq(secs[i].scrollStart, secs[i].scrollEnd)
  /\ \A i \in 1..(Len(secs) - 1) : Leq(secs[i].scrollEnd, secs[i + 1].scrollStart)

\* C20: every section of KEYFRAMES has scrollStart < scrollEnd; the
\* breakpoints built from an ordered section list are non-decreasing, and
\* those built from the sections of KEYFRAMES are strictly increasing.
C20_BreakpointOrdering ==
  /\ \A i \in 1..Len(sections) : Less(sections[i].scrollStart, sections[i].scrollEnd)
  /\ (tableBuilt /\ orderedSections(configured))
       => nondecreasing(arrays.scrollBreakpoints)
  /\ (tableBuilt /\ configured = sections)
       => increasing(arrays.scrollBreakpoints)

\* The breakpoints built from the sections of KEYFRAMES.
C20_Witness ==
  /\ tableBuilt
  /\ configured = sections
  /\ arrays.scrollBreakpoints
       = << Frac(0, 1), Frac(1, 5), Frac(9, 20), Frac(7, 10), Frac(17, 20), Frac(1, 1) >>

\* The section list secs with section i's scrollEnd set to e.
withEnd(secs, i, e) == [secs EXCEPT ![i].scrollEnd = e]

\* C21: the arrays built from a section list are those built from the same
\* list with any section but the last given another scrollEnd (leaving a
\* gap before the next section or overlapping it), and so are the five
\* transforms at every progress they were evaluated at.
C21_InteriorEndsIgnored ==
  tableBuilt
    => \A i \in 1..(Len(configured) - 1) : \A e \in TablePoints :
         /\ getInterpolationArraysOf(withEnd(configured, i, e)) = arrays
         /\ probed
              => transformsOf(getInterpolationArraysOf(withEnd(configured, i, e)),
                              probe.at) = probe.value

\* A section from 0 to 1 overlapping the next one, which starts at 1/2: at
\* progress 1/4 the rotation is halfway between the two sections' values.
C21_Witness ==
  /\ tableBuilt
  /\ probed
  /\ Len(configured) = 2
  /\ configured[1].scrollStart = Frac(0, 1)
  /\ configured[1].scrollEnd = Frac(1, 1)
  /\ configured[2].scrollStart = Frac(1, 2)
  /\ configured[1].rotationY = Frac(1, 1)
  /\ configured[2].rotationY = Frac(2, 1)
  /\ probe.at = Frac(1, 4)
  /\ probe.value.rotationY = Frac(3, 2)

---------------------------------------------------------------------------
(* Properties of the running scene (Spec, SpecNorm)                        *)

\* C22: whatever resizes happened, the mounted model's x translation is
\* -center.x * scale + 0.5 while the viewport is at least 768 wide and
\* -center.x * scale + 0 while it is narrower, and a resize that takes the
\* width across 768 leaves the translation of the layout it arrives in.
C22_PivotFollowsLayout ==
  /\ [](suitMounted
          => processedScene.position.x
               = Add(Mul(Neg(getCenter(rawBox).x), sceneScale(rawBox)),
                     IF size.width >= 768 THEN Frac(1, 2) ELSE Frac(0, 1)))
  /\ [][ (suitMounted /\ ((size.width >= 768) # (size'.width >= 768)))
           => processedScene'.position.x
                = Add(Mul(Neg(getCenter(rawBox).x), sceneScale(rawBox)),
                      IF size'.width >= 768 THEN Frac(1, 2) ELSE Frac(0, 1)) ]_vars

\* The asset centred at x = 1/2 with scale 1, in the 400 wide viewport the
\* canvas was resized to: its x translation is -1/2.
C22_Witness ==
  /\ suitMounted
  /\ size.width = 400
  /\ rawBox = SceneBox
  /\ processedScene.scale = Frac(1, 1)
  /\ processedScene.position.x = Frac(0 - 1, 2)

\* C23: a step that is not the camera's frame callback leaves the camera
\* position as it was, and a step that is not the model's frame callback
\* leaves the subject's Y rotation as it was: a scroll event, a resize (with
\* or without a change of layout), a render of queued state and the mount of
\* the model change neither.
C23_LiveStateNeverReset ==
  [][ /\ ~CameraTick => cameraPosition' = cameraPosition
      /\ ~RotationTick => groupRotationY' = groupRotationY ]_vars

\* After the one frame, whose camera tick ran at progress 0 in the 800 x 400
\* viewport, the page was scrolled, the new zoom rendered and the canvas
\* resized to the mobile layout; camera and rotation are where the frame
\* left them.
C23_Witness ==
  /\ frames = 1
  /\ framePhase = "idle"
  /\ suitMounted
  /\ targetPosition = cameraTarget(InitialSize, zoomAt(Zero), cameraYAt(Zero), defaultCameraX)
  /\ cameraPosition = Vector3Lerp(CAMERA_CONFIG.defaultPosition, targetPosition, Frac(1, 20))
  /\ groupRotationY = MathUtilsLerp(Zero, rotationYAt(Zero), Frac(1, 10))
  /\ scrollYProgress = Frac(9, 10)
  /\ currentZoom = zoomAt(Frac(9, 10))
  /\ size = [width |-> 400, height |-> 400]
  /\ processedScene = processScene(rawBox, FALSE)

\* C24: the camera's frame callback changes nothing but the camera (its
\* target, position and look-at point) and the subject's rotation stays as
\* it was; the model's frame callback changes nothing but the subject's Y
\* rotation and the camera stays as it was; neither changes the
\* interpolation arrays or the processed scene.
C24_ExclusiveOwnership ==
  [][ /\ CameraTick
           => /\ groupRotationY' = groupRotationY
              /\ arrays' = arrays
              /\ processedScene' = processedScene
              /\ UNCHANGED << scrollYProgress, channelVars, size, rawBox,
                              suitMounted, reactStateVars, queued, configured >>
      /\ RotationTick
           => /\ cameraPosition' = cameraPosition
              /\ cameraLookAt' = cameraLookAt
              /\ targetPosition' = targetPosition
              /\ arrays' = arrays
              /\ processedScene' = processedScene
              /\ UNCHANGED << scrollYProgress, channelVars, size, rawBox,
                              suitMounted, reactStateVars, queued, configured >> ]_vars

\* Both callbacks of a frame have run on the mounted model: the camera has
\* left its default position, the subject has turned, and the arrays and
\* the processed scene are those built before the frame.
C24_Witness ==
  /\ frames = 1
  /\ framePhase = "idle"
  /\ suitMounted
  /\ cameraPosition # CAMERA_CONFIG.defaultPosition
  /\ groupRotationY # Zero
  /\ arrays = getInterpolationArrays
  /\ processedScene = processScene(rawBox, isDesktopOf(size))

\* C25: every camera tick hands camera.lookAt the point (0, 1.2, 0), at
\* every progress, zoom and viewport size the tick runs with, and once a
\* tick has run that point stays the one the camera was last turned to.
C25_FixedLookAt ==
  /\ [][ CameraTick => cameraLookAt' = Vec(Frac(0, 1), Frac(6, 5), Frac(0, 1)) ]_vars
  /\ [](frames >= 1 => cameraLookAt = Vec(Frac(0, 1), Frac(6, 5), Frac(0, 1)))

\* A tick ran at progress 0.9 in the 400 x 400 viewport, with the zoom and
\* the cameraY of that progress: the look-at point is (0, 1.2, 0), which is
\* not the height the camera is sent to.
C25_Witness ==
  /\ frames = 1
  /\ size = [width |-> 400, height |-> 400]
  /\ targetPosition.z = refDistance(zoomAt(Frac(9, 10)))
  /\ targetPosition.y = cameraYAt(Frac(9, 10))
  /\ targetPosition.y # Frac(6, 5)
  /\ cameraLookAt = Vec(Frac(0, 1), Frac(6, 5), Frac(0, 1))

\* The value a component holds in React state for a listened channel.
stored(c) ==
  IF c = "rotationY" THEN currentRotation
  ELSE IF c = "zoom" THEN currentZoom
  ELSE IF c = "cameraY" THEN currentCameraY
  ELSE currentCameraX

\* A step that renders the queued set state calls.
RenderStep == queued # << >> /\ queued' = << >>

\* C26 as claimed: on every camera tick the zoom, cameraY and cameraX used
\* for the target are the current values of the zoom, cameraY and cameraX
\* channels, on every tick of the mounted model the rotation aimed at is the
\* current value of the rotationY channel, and a render changes the stored
\* value of no channel but those whose change event fired.
C26_NoLostChannelUpdate ==
  [][ /\ CameraTick
           => /\ currentZoom = zoom
              /\ currentCameraY = cameraY
              /\ currentCameraX = cameraX
      /\ (RotationTick /\ suitMounted) => currentRotation = rotationY
      /\ RenderStep
           => \A c \in {"rotationY", "zoom", "cameraY", "cameraX"} :
                c \notin DOMAIN queued => stored(c)' = stored(c) ]_vars

---------------------------------------------------------------------------
(* Properties of the configured table (SpecInterp)                         *)

\* Every zoom a camera tick may come to use: the zoom channel, the zoom
\* CameraController holds and the one queued for its next render.
zoomsInUse ==
  {zoom, currentZoom} \cup (IF "zoom" \in DOMAIN queued THEN {queued["zoom"]} ELSE {})

\* C27: at every progress from -1 to 2 the zoom interpolated from KEYFRAMES,
\* and with it every zoom a camera tick may use, lies in [0.95, 3.0]; the
\* distance 5 / zoom of the camera target is finite and lies in
\* [5/3, 5/0.95], so no tick divides by a zoom of zero.
C27_ZoomNeverZero ==
  \A z \in zoomsInUse :
    /\ Leq(Frac(19, 20), z)
    /\ Leq(z, Frac(3, 1))
    /\ z # Zero
    /\ IsFinite(cameraTarget(size, z, cameraY, cameraX).z)
    /\ Leq(Frac(5, 3), cameraTarget(size, z, cameraY, cameraX).z)
    /\ Leq(cameraTarget(size, z, cameraY, cameraX).z, Div(Frac(5, 1), Frac(19, 20)))

\* At progress 0.45 the zoom is the smallest authored one, 0.95, and the
\* camera target is at the largest distance, 100/19.
C27_Witness ==
  /\ scrollYProgress = Frac(9, 20)
  /\ zoom = Frac(19, 20)
  /\ queued["zoom"] = Frac(19, 20)
  /\ cameraTarget(size, zoom, cameraY, cameraX).z = Frac(100, 19)

---------------------------------------------------------------------------
(* Properties of the frame callbacks before the mount (Spec)               *)

\* C28: while the model is not mounted a step of the model's frame callback
\* changes nothing of the scene (only the frame ends), in particular the
\* group's rotation keeps the number it had; the camera's callback runs all
\* the same and moves the camera by a twentieth of the way to its target.
C28_RotationTickGuarded ==
  [][ /\ (RotationTick /\ ~suitMounted)
           => /\ groupRotationY' = groupRotationY
              /\ UNCHANGED << scrollYProgress, channelVars, size, rawBox,
                              suitMounted, processedScene, reactStateVars,
                              queued, cameraVars, frames, tableVars >>
      /\ (CameraTick /\ ~suitMounted)
           => /\ frames' = frames + 1
              /\ cameraPosition'
                   = Vector3Lerp(cameraPosition,
                                 cameraTarget(size, currentZoom, currentCameraY,
                                              currentCameraX),
                                 Frac(1, 20)) ]_vars

\* A whole frame ran before the asset loaded: the camera has moved off its
\* default position toward the target, the rotation is still 0.
C28_Witness ==
  /\ ~suitMounted
  /\ frames = 1
  /\ framePhase = "idle"
  /\ FiniteVec(cameraPosition)
  /\ Less(cameraPosition.z, CAMERA_CONFIG.defaultPosition.z)
  /\ groupRotationY = Zero
  /\ processedScene = NoScene

---------------------------------------------------------------------------
(* Properties of the configured section ranges (SpecInterp)                *)

\* C29: the first section of KEYFRAMES starts at 0, every section ends
\* where the next one starts and the last one ends at 1; the table's first
\* and last breakpoints are 0 and 1, every progress from 0 to 1 lies in a
\* segment of the table and is interpolated as it is, and a progress is
\* replaced by a clamped one only below 0 or above 1.
C29_SectionsCoverUnitInterval ==
  /\ sections[1].scrollStart = Frac(0, 1)
  /\ \A i \in 1..(Len(sections) - 1) :
       sections[i].scrollEnd = sections[i + 1].scrollStart
  /\ sections[Len(sections)].scrollEnd = Frac(1, 1)
  /\ breakpoints[1] = Frac(0, 1)
  /\ breakpoints[Len(breakpoints)] = Frac(1, 1)
  /\ (Leq(Frac(0, 1), scrollYProgress) /\ Leq(scrollYProgress, Frac(1, 1)))
       => /\ \E i \in Segments : Brackets(i, scrollYProgress)
          /\ clamp(breakpoints[1], breakpoints[Len(breakpoints)], scrollYProgress)
               = scrollYProgress
  /\ clamp(breakpoints[1], breakpoints[Len(breakpoints)], scrollYProgress)
         # scrollYProgress
       => (Less(scrollYProgress, Frac(0, 1)) \/ Less(Frac(1, 1), scrollYProgress))

\* Progress 0.9 lies in the last segment, from 0.85 to 1, and in no other.
C29_Witness ==
  /\ scrollYProgress = Frac(9, 10)
  /\ Brackets(5, scrollYProgress)
  /\ \A i \in 1..4 : ~Brackets(i, scrollYProgress)
  /\ clamp(breakpoints[1], breakpoints[Len(breakpoints)], scrollYProgress) = Frac(9, 10)

====
